---- MODULE Spec2Model ----
(***************************************************************************)
(* Model of the admin dashboard:                                           *)
(*   - the Sectors page (src/src/admin/pages/Sectors.tsx): its four state  *)
(*     cells, its seven handlers and the continuations of the two async    *)
(*     handlers after their awaited mutation settles;                      *)
(*   - the statistics service (src/unnamed/part_000): getDashboardStats,   *)
(*     getRecentContacts/Projects/BlogPosts and getStatsEvolution as       *)
(*     functions of the outcomes of the remote queries they issue.         *)
(***************************************************************************)
EXTENDS Integers, Sequences, FiniteSets

\* ------------------------------------------------------------------ bounds
\* In-flight mutations (pending handleSubmit / handleConfirmDelete calls).
MaxPending == 2
\* Largest row count a table reports.
MaxCount == 1
\* Largest limit a recent reader is called with.
MaxLimit == 3
\* Most rows a select of the evolution chart returns.
MaxRows == 2

\* ------------------------------------------------------------ JS values
\* JavaScript null.
NULL == [null |-> TRUE]

\* ================================================================ Sectors page
VARIABLES isModalOpen, isDeleteModalOpen, editingSector, deletingSector,
          pending, last, toasts, issued

pageVars == <<isModalOpen, isDeleteModalOpen, editingSector, deletingSector,
              pending, last, toasts, issued>>

\* The last call of the statistics service: the function called, the limit it
\* was given (recent readers), the outcome of each remote query it issued (by
\* table), what it gave its caller, and whether it logged to console.error.
VARIABLES fn, limit, queries, ret, logged

serviceVars == <<fn, limit, queries, ret, logged>>

\* The sectors the list query returned: the cards the page renders.
Sectors == {[id |-> "s1", title |-> "Fintech"], [id |-> "s2", title |-> "Sante"]}

\* What the modal form can submit (SectorFormData, fields flattened).
FormData ==
  { [ id |-> i, title |-> "title", description |-> "description",
      services |-> <<"svc">>, icon |-> "icon", image |-> "image",
      hero_title |-> "hero_title", hero_subtitle |-> "hero_subtitle",
      modal_description |-> "modal_description",
      highlights |-> <<"hl">>, tech_stack |-> <<"ts">>,
      case_study_title |-> t, case_study_results |-> r,
      cta_text |-> "cta_text" ]
    : i \in {"s1", "s3"}, t \in {"cs1", "cs2"}, r \in {<<>>, <<"res">>} }

\* Errors a rejected mutation carries: error.code is the backend code, or
\* undefined when the error has none.
Errors == {[code |-> "23505"], [code |-> "42501"], [code |-> "undefined"]}

\* Toast messages of the page.
ToastSuccess(m) == [level |-> "success", message |-> m]
ToastError(m)   == [level |-> "error", message |-> m]

\* content_modal built from the flat form fields.
ContentModal(formData) ==
  [ hero_title    |-> formData.hero_title,
    hero_subtitle |-> formData.hero_subtitle,
    description   |-> formData.modal_description,
    highlights    |-> formData.highlights,
    tech_stack    |-> formData.tech_stack,
    case_study    |-> [ title   |-> formData.case_study_title,
                        results |-> formData.case_study_results ],
    cta_text      |-> formData.cta_text ]

\* sectorData: the document in API format.
SectorData(formData) ==
  [ id            |-> formData.id,
    title         |-> formData.title,
    description   |-> formData.description,
    services      |-> formData.services,
    icon          |-> formData.icon,
    image         |-> formData.image,
    content_modal |-> ContentModal(formData) ]

\* Faulty variant of SubmitRequest: the update is keyed by the form's id.
SubmitRequestByFormId(editing, formData) ==
  IF editing # NULL
    THEN [mutation |-> "update", id |-> formData.id, data |-> SectorData(formData)]
    ELSE [mutation |-> "insert", id |-> formData.id, data |-> SectorData(formData)]

\* The mutation handleSubmit starts: update keyed by the edit target's id, or
\* insert of the document (an insert carries no key: id is the document's own).
SubmitRequest(editing, formData) ==
  IF editing # NULL
    THEN [mutation |-> "update", id |-> editing.id, data |-> SectorData(formData)]
    ELSE [mutation |-> "insert", id |-> formData.id, data |-> SectorData(formData)]

\* The toast shown once the awaited mutation of handleSubmit resolved.
SubmitSuccessToast(editing) ==
  IF editing # NULL
    THEN ToastSuccess("Secteur mis a jour avec succes !")
    ELSE ToastSuccess("Secteur cree avec succes !")

\* Faulty variant of SubmitErrorToast: the error code is not looked at.
SubmitErrorToastGeneric(error, editing) ==
  ToastError(IF editing # NULL
               THEN "Erreur lors de la mise a jour du secteur."
               ELSE "Erreur lors de la creation du secteur.")

\* The catch block of handleSubmit.
SubmitErrorToast(error, editing) ==
  IF error.code = "23505"
    THEN ToastError("Un secteur avec cet ID existe deja.")
    ELSE ToastError(IF editing # NULL
                      THEN "Erreur lors de la mise a jour du secteur."
                      ELSE "Erreur lors de la creation du secteur.")

\* The request handleConfirmDelete starts.
DeleteRequest(sector) == [mutation |-> "delete", id |-> sector.id, data |-> NULL]

\* A suspended async handler call: the handler and the editingSector its
\* closure captured (the only captured state its continuation reads).
SubmitCall(editing) == [fn |-> "handleSubmit", editingSector |-> editing]
DeleteCall == [fn |-> "handleConfirmDelete", editingSector |-> NULL]
Calls == {SubmitCall(e) : e \in Sectors \cup {NULL}} \cup {DeleteCall}

NoCall == [fn |-> "none", editingSector |-> NULL]
Resolved == [ok |-> TRUE, error |-> NULL]
Rejected(e) == [ok |-> FALSE, error |-> e]

\* The four state cells of the page.
PageState ==
  [ isModalOpen       |-> isModalOpen,
    isDeleteModalOpen |-> isDeleteModalOpen,
    editingSector     |-> editingSector,
    deletingSector    |-> deletingSector ]

\* Bookkeeping of a step: the handler that ran, the page state it started
\* from, the call it suspended or resumed, how the awaited mutation settled
\* (for a continuation) and the form it was given (for handleSubmit).
Step(op, call, outcome, input) ==
  [op |-> op, pre |-> PageState, call |-> call, outcome |-> outcome,
   input |-> input]

NumPending == LET RECURSIVE Sum(_)
                  Sum(S) == IF S = {} THEN 0
                            ELSE LET c == CHOOSE c \in S : TRUE
                                 IN pending[c] + Sum(S \ {c})
              IN Sum(Calls)

Suspend(call) == [pending EXCEPT ![call] = @ + 1]
Resume(call)  == [pending EXCEPT ![call] = @ - 1]

PageInit ==
  /\ isModalOpen = FALSE
  /\ isDeleteModalOpen = FALSE
  /\ editingSector = NULL
  /\ deletingSector = NULL
  /\ pending = [c \in Calls |-> 0]
  /\ last = [op |-> "init",
             pre |-> [isModalOpen |-> FALSE, isDeleteModalOpen |-> FALSE,
                      editingSector |-> NULL, deletingSector |-> NULL],
             call |-> NoCall, outcome |-> Resolved, input |-> NULL]
  /\ toasts = <<>>
  /\ issued = <<>>

handleCreate ==
  /\ editingSector' = NULL
  /\ isModalOpen' = TRUE
  /\ last' = Step("handleCreate", NoCall, Resolved, NULL)
  /\ toasts' = <<>>
  /\ issued' = <<>>
  /\ UNCHANGED <<isDeleteModalOpen, deletingSector, pending>>
  /\ UNCHANGED serviceVars

handleEdit ==
  \E sector \in Sectors :
    /\ editingSector' = sector
    /\ isModalOpen' = TRUE
    /\ last' = Step("handleEdit", NoCall, Resolved, NULL)
    /\ toasts' = <<>>
    /\ issued' = <<>>
    /\ UNCHANGED <<isDeleteModalOpen, deletingSector, pending>>
    /\ UNCHANGED serviceVars

handleDeleteClick ==
  \E sector \in Sectors :
    /\ deletingSector' = sector
    /\ isDeleteModalOpen' = TRUE
    /\ last' = Step("handleDeleteClick", NoCall, Resolved, NULL)
    /\ toasts' = <<>>
    /\ issued' = <<>>
    /\ UNCHANGED <<isModalOpen, editingSector, pending>>
    /\ UNCHANGED serviceVars

\* handleSubmit up to its await: builds the document, starts the mutation and
\* suspends. Like every handler it is callable in any page state: the code of
\* the handlers holds no guard on the modal flags.
handleSubmit ==
  \E formData \in FormData :
    /\ NumPending < MaxPending
    /\ issued' = <<SubmitRequest(editingSector, formData)>>
    /\ pending' = Suspend(SubmitCall(editingSector))
    /\ last' = Step("handleSubmit", SubmitCall(editingSector), Resolved, formData)
    /\ toasts' = <<>>
    /\ UNCHANGED <<isModalOpen, isDeleteModalOpen, editingSector, deletingSector>>
    /\ UNCHANGED serviceVars

\* Faulty variant of handleSubmitResolved: the edit target is not cleared.
handleSubmitResolvedKeepTarget ==
  \E call \in Calls :
    /\ call.fn = "handleSubmit"
    /\ pending[call] > 0
    /\ pending' = Resume(call)
    /\ toasts' = <<SubmitSuccessToast(call.editingSector)>>
    /\ isModalOpen' = FALSE
    /\ last' = Step("handleSubmitSettled", call, Resolved, NULL)
    /\ issued' = <<>>
    /\ UNCHANGED <<isDeleteModalOpen, deletingSector, editingSector>>
    /\ UNCHANGED serviceVars

\* handleSubmit after its awaited mutation resolved.
handleSubmitResolved ==
  \E call \in Calls :
    /\ call.fn = "handleSubmit"
    /\ pending[call] > 0
    /\ pending' = Resume(call)
    /\ toasts' = <<SubmitSuccessToast(call.editingSector)>>
    /\ isModalOpen' = FALSE
    /\ editingSector' = NULL
    /\ last' = Step("handleSubmitSettled", call, Resolved, NULL)
    /\ issued' = <<>>
    /\ UNCHANGED <<isDeleteModalOpen, deletingSector>>
    /\ UNCHANGED serviceVars

\* handleSubmit after its awaited mutation rejected: the catch block.
handleSubmitRejected ==
  \E call \in Calls, error \in Errors :
    /\ call.fn = "handleSubmit"
    /\ pending[call] > 0
    /\ pending' = Resume(call)
    /\ toasts' = <<SubmitErrorToast(error, call.editingSector)>>
    /\ last' = Step("handleSubmitSettled", call, Rejected(error), NULL)
    /\ issued' = <<>>
    /\ UNCHANGED <<isModalOpen, isDeleteModalOpen, editingSector, deletingSector>>
    /\ UNCHANGED serviceVars

\* handleConfirmDelete up to its await; with no delete target it returns at once.
handleConfirmDelete ==
  /\ last' = Step("handleConfirmDelete", NoCall, Resolved, NULL)
  /\ toasts' = <<>>
  /\ IF deletingSector = NULL
       THEN /\ issued' = <<>>
            /\ UNCHANGED pending
       ELSE /\ NumPending < MaxPending
            /\ issued' = <<DeleteRequest(deletingSector)>>
            /\ pending' = Suspend(DeleteCall)
  /\ UNCHANGED <<isModalOpen, isDeleteModalOpen, editingSector, deletingSector>>
  /\ UNCHANGED serviceVars

\* handleConfirmDelete after its awaited mutation resolved.
handleConfirmDeleteResolved ==
  /\ pending[DeleteCall] > 0
  /\ pending' = Resume(DeleteCall)
  /\ toasts' = <<ToastSuccess("Secteur supprime avec succes !")>>
  /\ isDeleteModalOpen' = FALSE
  /\ deletingSector' = NULL
  /\ last' = Step("handleConfirmDeleteSettled", DeleteCall, Resolved, NULL)
  /\ issued' = <<>>
  /\ UNCHANGED <<isModalOpen, editingSector>>
  /\ UNCHANGED serviceVars

\* Faulty variant of handleConfirmDeleteRejected: the dialog is reset on failure.
handleConfirmDeleteRejectedReset ==
  \E error \in Errors :
    /\ pending[DeleteCall] > 0
    /\ pending' = Resume(DeleteCall)
    /\ toasts' = <<ToastError("Erreur lors de la suppression du secteur.")>>
    /\ isDeleteModalOpen' = FALSE
    /\ deletingSector' = NULL
    /\ last' = Step("handleConfirmDeleteSettled", DeleteCall, Rejected(error), NULL)
    /\ issued' = <<>>
    /\ UNCHANGED <<isModalOpen, editingSector>>
    /\ UNCHANGED serviceVars

\* handleConfirmDelete after its awaited mutation rejected: the catch block.
handleConfirmDeleteRejected ==
  \E error \in Errors :
    /\ pending[DeleteCall] > 0
    /\ pending' = Resume(DeleteCall)
    /\ toasts' = <<ToastError("Erreur lors de la suppression du secteur.")>>
    /\ last' = Step("handleConfirmDeleteSettled", DeleteCall, Rejected(error), NULL)
    /\ issued' = <<>>
    /\ UNCHANGED <<isModalOpen, isDeleteModalOpen, editingSector, deletingSector>>
    /\ UNCHANGED serviceVars

\* Faulty variant of handleCloseModal: the edit target is not cleared.
handleCloseModalKeepTarget ==
  /\ isModalOpen' = FALSE
  /\ last' = Step("handleCloseModal", NoCall, Resolved, NULL)
  /\ toasts' = <<>>
  /\ issued' = <<>>
  /\ UNCHANGED <<isDeleteModalOpen, deletingSector, pending, editingSector>>
  /\ UNCHANGED serviceVars

handleCloseModal ==
  /\ isModalOpen' = FALSE
  /\ editingSector' = NULL
  /\ last' = Step("handleCloseModal", NoCall, Resolved, NULL)
  /\ toasts' = <<>>
  /\ issued' = <<>>
  /\ UNCHANGED <<isDeleteModalOpen, deletingSector, pending>>
  /\ UNCHANGED serviceVars

handleCloseDeleteModal ==
  /\ isDeleteModalOpen' = FALSE
  /\ deletingSector' = NULL
  /\ last' = Step("handleCloseDeleteModal", NoCall, Resolved, NULL)
  /\ toasts' = <<>>
  /\ issued' = <<>>
  /\ UNCHANGED <<isModalOpen, editingSector, pending>>
  /\ UNCHANGED serviceVars


\* ========================================================== statistics service

\* A JavaScript number, and the row list of a select.
Number(k) == [number |-> k]
Rows(seq) == [rows |-> seq]

\* What a call gives its caller.
Return(v) == [kind |-> "return", value |-> v]
Throw(e)  == [kind |-> "throw", value |-> e]
Idle      == [kind |-> "idle", value |-> NULL]

\* A remote query either rejects (its promise rejects with a reason) or is
\* fulfilled with {count, data, error}: the client reports a failed query by
\* fulfilling with a non-null error and null count and data.
QueryRejected ==
  [settled |-> "rejected", count |-> NULL, data |-> NULL, error |-> NULL,
   reason |-> [message |-> "fetch failed"]]
QueryError ==
  [settled |-> "fulfilled", count |-> NULL, data |-> NULL,
   error |-> [message |-> "query failed"], reason |-> NULL]
QueryCount(c) ==
  [settled |-> "fulfilled", count |-> c, data |-> NULL, error |-> NULL,
   reason |-> NULL]
QueryData(d) ==
  [settled |-> "fulfilled", count |-> NULL, data |-> d, error |-> NULL,
   reason |-> NULL]

\* The eight tables counted, in the order of the Promise.all.
CountTables == <<"contact", "projects", "blog_posts", "services", "sectors",
                 "navigation", "skills", "chatbot_knowledge">>
\* The three tables of the evolution chart, in the order of the Promise.all.
EvolutionTables == <<"contact", "projects", "blog_posts">>

Range(seq) == {seq[i] : i \in DOMAIN seq}

\* Outcomes of a head-only count query.
CountOutcomes ==
  {QueryRejected, QueryError, QueryCount(NULL)}
    \cup {QueryCount(Number(k)) : k \in 0..MaxCount}

\* created_at values: instants, in hours.
Instants == {9, 21, 33}

\* The row objects a select of created_at can return.
RowObjects == {[created_at |-> i] : i \in Instants}

SeqsUpTo(S, n) == UNION {[1..m -> S] : m \in 0..n}

\* Rows as .order('created_at', {ascending: false}) leaves them.
NewestFirst(d) == \A i \in 1..(Len(d) - 1) : d[i].created_at >= d[i + 1].created_at

\* Outcomes of the select of getStatsEvolution: any rows, at most n of them.
SelectOutcomes(n) ==
  {QueryRejected, QueryError, QueryData(NULL)}
    \cup {QueryData(Rows(d)) : d \in SeqsUpTo(RowObjects, n)}

\* Outcomes of the select of a recent reader: ordered, and capped by .limit(n).
RecentOutcomes(n) ==
  {QueryRejected, QueryError, QueryData(NULL)}
    \cup {QueryData(Rows(d)) : d \in {e \in SeqsUpTo(RowObjects, n) : NewestFirst(e)}}

\* x || 0 on a count.
OrZero(c) == IF c = NULL \/ c.number = 0 THEN 0 ELSE c.number

\* Faulty variant of StatsSnapshot: skillsCount reads the navigation count.
StatsSnapshotShifted(results) ==
  [ contactsCount         |-> OrZero(results["contact"].count),
    projectsCount         |-> OrZero(results["projects"].count),
    blogPostsCount        |-> OrZero(results["blog_posts"].count),
    servicesCount         |-> OrZero(results["services"].count),
    sectorsCount          |-> OrZero(results["sectors"].count),
    navigationItemsCount  |-> OrZero(results["navigation"].count),
    skillsCount           |-> OrZero(results["navigation"].count),
    chatbotKnowledgeCount |-> OrZero(results["chatbot_knowledge"].count) ]

\* The object getDashboardStats returns from the eight fulfilled results.
StatsSnapshot(results) ==
  [ contactsCount         |-> OrZero(results["contact"].count),
    projectsCount         |-> OrZero(results["projects"].count),
    blogPostsCount        |-> OrZero(results["blog_posts"].count),
    servicesCount         |-> OrZero(results["services"].count),
    sectorsCount          |-> OrZero(results["sectors"].count),
    navigationItemsCount  |-> OrZero(results["navigation"].count),
    skillsCount           |-> OrZero(results["skills"].count),
    chatbotKnowledgeCount |-> OrZero(results["chatbot_knowledge"].count) ]

\* Promise.all rejects, with the reason of a rejected member (the first to
\* reject in time: any of them), iff a member rejects.
AnyRejected(results) == \E t \in DOMAIN results : results[t].settled = "rejected"
RejectionReasons(results) ==
  {results[t].reason : t \in {u \in DOMAIN results : results[u].settled = "rejected"}}

ServiceInit ==
  /\ fn = "none"
  /\ limit = 0
  /\ queries = <<>>
  /\ ret = Idle
  /\ logged = FALSE

getDashboardStats ==
  /\ fn = "none"
  /\ \E results \in [Range(CountTables) -> CountOutcomes] :
    /\ fn' = "getDashboardStats"
    /\ limit' = 0
    /\ queries' = results
    /\ IF AnyRejected(results)
         THEN /\ \E e \in RejectionReasons(results) : ret' = Throw(e)
              /\ logged' = TRUE
         ELSE /\ ret' = Return(StatsSnapshot(results))
              /\ logged' = FALSE
    /\ UNCHANGED pageVars

\* Faulty variant of RecentResult: the catch block re-raises.
RecentResultRethrow(result) ==
  IF result.settled = "rejected"
    THEN [ret |-> Throw(result.reason), logged |-> TRUE]
    ELSE IF result.error # NULL
      THEN [ret |-> Throw(result.error), logged |-> TRUE]
      ELSE [ret |-> Return(IF result.data = NULL THEN <<>> ELSE result.data.rows),
            logged |-> FALSE]

\* The body shared by the three recent readers, as a function of the outcome
\* of the awaited query: a rejection and a thrown error both reach the catch.
RecentResult(result) ==
  IF result.settled = "rejected"
    THEN [ret |-> Return(<<>>), logged |-> TRUE]
    ELSE IF result.error # NULL
      THEN [ret |-> Return(<<>>), logged |-> TRUE]
      ELSE [ret |-> Return(IF result.data = NULL THEN <<>> ELSE result.data.rows),
            logged |-> FALSE]

getRecentContacts ==
  /\ fn = "none"
  /\ \E lim \in 0..MaxLimit :
       \E result \in RecentOutcomes(lim) :
         /\ fn' = "getRecentContacts"
         /\ limit' = lim
         /\ queries' = [t \in {"contact"} |-> result]
         /\ ret' = RecentResult(result).ret
         /\ logged' = RecentResult(result).logged
  /\ UNCHANGED pageVars

getRecentProjects ==
  /\ fn = "none"
  /\ \E lim \in 0..MaxLimit :
       \E result \in RecentOutcomes(lim) :
         /\ fn' = "getRecentProjects"
         /\ limit' = lim
         /\ queries' = [t \in {"projects"} |-> result]
         /\ ret' = RecentResult(result).ret
         /\ logged' = RecentResult(result).logged
  /\ UNCHANGED pageVars

getRecentBlogPosts ==
  /\ fn = "none"
  /\ \E lim \in 0..MaxLimit :
       \E result \in RecentOutcomes(lim) :
         /\ fn' = "getRecentBlogPosts"
         /\ limit' = lim
         /\ queries' = [t \in {"blog_posts"} |-> result]
         /\ ret' = RecentResult(result).ret
         /\ logged' = RecentResult(result).logged
  /\ UNCHANGED pageVars

\* new Date(created_at).toLocaleDateString('fr-FR'): the day of the instant.
LocaleDateString(instant) == instant \div 24

EmptyMap == [d \in {} |-> 0]

\* groupByDay: one pass over the rows, bumping the bucket of each row's day.
RECURSIVE GroupFrom(_, _, _)
GroupFrom(data, i, grouped) ==
  IF i > Len(data)
    THEN grouped
    ELSE LET date == LocaleDateString(data[i].created_at)
             old  == IF date \in DOMAIN grouped THEN grouped[date] ELSE 0
         IN GroupFrom(data, i + 1,
                      [d \in DOMAIN grouped \cup {date} |->
                         IF d = date THEN old + 1 ELSE grouped[d]])

groupByDay(data) == GroupFrom(data, 1, EmptyMap)

\* x.data || []
DataOrEmpty(d) == IF d = NULL THEN <<>> ELSE d.rows

getStatsEvolution ==
  /\ fn = "none"
  /\ \E results \in [Range(EvolutionTables) -> SelectOutcomes(MaxRows)] :
       /\ fn' = "getStatsEvolution"
       /\ limit' = 0
       /\ queries' = results
       /\ IF AnyRejected(results)
            THEN /\ ret' = Return([contacts |-> EmptyMap, projects |-> EmptyMap,
                                   blogPosts |-> EmptyMap])
                 /\ logged' = TRUE
            ELSE /\ ret' = Return(
                      [contacts  |-> groupByDay(DataOrEmpty(results["contact"].data)),
                       projects  |-> groupByDay(DataOrEmpty(results["projects"].data)),
                       blogPosts |-> groupByDay(DataOrEmpty(results["blog_posts"].data))])
                 /\ logged' = FALSE
  /\ UNCHANGED pageVars

Init == PageInit /\ ServiceInit

Next ==
  \/ handleCreate
  \/ handleEdit
  \/ handleDeleteClick
  \/ handleSubmit
  \/ handleSubmitResolved
  \/ handleSubmitRejected
  \/ handleConfirmDelete
  \/ handleConfirmDeleteResolved
  \/ handleConfirmDeleteRejected
  \/ handleCloseModal
  \/ handleCloseDeleteModal

vars == <<pageVars, serviceVars>>

Spec == Init /\ [][Next]_vars

StatsNext == getDashboardStats

SpecStats == Init /\ [][StatsNext]_vars

RecentNext ==
  \/ getRecentContacts
  \/ getRecentProjects
  \/ getRecentBlogPosts

SpecRecent == Init /\ [][RecentNext]_vars

EvolutionNext == getStatsEvolution

SpecEvolution == Init /\ [][EvolutionNext]_vars

\* ====================================================================== claims
StatsKeys == {"contactsCount", "projectsCount", "blogPostsCount", "servicesCount",
              "sectorsCount", "navigationItemsCount", "skillsCount",
              "chatbotKnowledgeCount"}

\* The table each key of the snapshot counts.
TableOf(key) ==
  CASE key = "contactsCount"         -> "contact"
    [] key = "projectsCount"         -> "projects"
    [] key = "blogPostsCount"        -> "blog_posts"
    [] key = "servicesCount"         -> "services"
    [] key = "sectorsCount"          -> "sectors"
    [] key = "navigationItemsCount"  -> "navigation"
    [] key = "skillsCount"           -> "skills"
    [] key = "chatbotKnowledgeCount" -> "chatbot_knowledge"

\* A query failed: its promise rejected, or it was fulfilled with an error.
QueryFailed(q) == q.settled = "rejected" \/ q.error # NULL

\* C1: a getDashboardStats call that returns yields a snapshot with exactly the
\* eight keys, each a non-negative integer equal to the count of its own
\* table, a null count read as 0.
C1_SnapshotComplete ==
  (fn = "getDashboardStats" /\ ret.kind = "return") =>
    /\ DOMAIN ret.value = StatsKeys
    /\ \A key \in StatsKeys :
         /\ ret.value[key] \in Nat
         /\ ret.value[key] = IF queries[TableOf(key)].count = NULL
                               THEN 0
                               ELSE queries[TableOf(key)].count.number

\* C1 witness: a returned snapshot where one count was null (read as 0) and two
\* other tables reported different counts.
C1_Witness ==
  /\ fn = "getDashboardStats"
  /\ ret.kind = "return"
  /\ queries["contact"].count = NULL
  /\ ret.value["contactsCount"] = 0
  /\ ret.value["skillsCount"] = 1
  /\ ret.value["navigationItemsCount"] = 0
  /\ queries["navigation"].count = Number(0)

\* C2: a recent reader never raises, and returns the empty sequence whenever
\* its query rejected, was fulfilled with an error, or carried null data.
C2_RecentNeverRaises ==
  (fn \in {"getRecentContacts", "getRecentProjects", "getRecentBlogPosts"}) =>
    /\ ret.kind = "return"
    /\ \A t \in DOMAIN queries :
         (QueryFailed(queries[t]) \/ queries[t].data = NULL) => ret.value = <<>>

\* C2 witness: a recent reader called with a positive limit whose query
\* rejected, and which returned the empty sequence.
C2_Witness ==
  /\ fn = "getRecentBlogPosts"
  /\ limit > 0
  /\ queries["blog_posts"].settled = "rejected"
  /\ ret = Return(<<>>)
  /\ logged

\* C3: whenever one of the eight count queries failed (rejected, or fulfilled
\* with an error and a null count), getDashboardStats raises to its caller.
C3_NoPartialStats ==
  (fn = "getDashboardStats" /\ \E t \in DOMAIN queries : QueryFailed(queries[t]))
    => ret.kind = "throw"

\* C4: getStatsEvolution never raises, and whenever one of its three queries
\* failed (rejected, or fulfilled with an error and null data) it returns the
\* three empty maps.
C4_NoPartialEvolution ==
  (fn = "getStatsEvolution") =>
    /\ ret.kind = "return"
    /\ (\E t \in DOMAIN queries : QueryFailed(queries[t])) =>
         ret.value = [contacts |-> EmptyMap, projects |-> EmptyMap,
                      blogPosts |-> EmptyMap]

\* C5: when a handleSubmit call made in create mode sees its insert rejected,
\* exactly one toast is shown: the duplicate-id error if the code is '23505',
\* the generic create-failure error for any other code; never a success toast.
C5_DuplicateIdMessage ==
  (/\ last.op = "handleSubmitSettled"
   /\ last.call.editingSector = NULL
   /\ ~last.outcome.ok) =>
     toasts = << IF last.outcome.error.code = "23505"
                   THEN [level |-> "error",
                         message |-> "Un secteur avec cet ID existe deja."]
                   ELSE [level |-> "error",
                         message |-> "Erreur lors de la creation du secteur."] >>

\* C5 witness: an insert rejected with '23505' and the duplicate-id toast shown.
C5_Witness ==
  /\ last.op = "handleSubmitSettled"
  /\ last.call.editingSector = NULL
  /\ ~last.outcome.ok
  /\ last.outcome.error.code = "23505"
  /\ toasts = <<ToastError("Un secteur avec cet ID existe deja.")>>

\* C6: when the mutation of a handleSubmit call resolves, one success toast is
\* shown, isModalOpen is false and editingSector is null; when it rejects, one
\* error toast is shown and the four state cells keep their values.
C6_SubmitOutcome ==
  (last.op = "handleSubmitSettled") =>
    IF last.outcome.ok
      THEN /\ Len(toasts) = 1
           /\ toasts[1].level = "success"
           /\ isModalOpen = FALSE
           /\ editingSector = NULL
      ELSE /\ Len(toasts) = 1
           /\ toasts[1].level = "error"
           /\ PageState = last.pre

\* C6 witness: an update rejected while the edit modal was open on its target:
\* the modal is still open on it.
C6_Witness ==
  /\ last.op = "handleSubmitSettled"
  /\ ~last.outcome.ok
  /\ last.call.editingSector # NULL
  /\ isModalOpen
  /\ editingSector = last.call.editingSector

\* C7: handleConfirmDelete starts a delete, keyed by the target's id, iff a
\* delete target is set, and changes no state cell itself; when the delete
\* resolves, the dialog is closed, the target cleared and a success toast
\* shown; when it rejects, only an error toast is shown and isDeleteModalOpen
\* and deletingSector keep their values.
C7_ConfirmDelete ==
  /\ (last.op = "handleConfirmDelete") =>
       /\ PageState = last.pre
       /\ toasts = <<>>
       /\ IF last.pre.deletingSector = NULL
            THEN issued = <<>>
            ELSE issued = << [mutation |-> "delete",
                              id |-> last.pre.deletingSector.id,
                              data |-> NULL] >>
  /\ (last.op = "handleConfirmDeleteSettled") =>
       IF last.outcome.ok
         THEN /\ isDeleteModalOpen = FALSE
              /\ deletingSector = NULL
              /\ Len(toasts) = 1
              /\ toasts[1].level = "success"
         ELSE /\ Len(toasts) = 1
              /\ toasts[1].level = "error"
              /\ isDeleteModalOpen = last.pre.isDeleteModalOpen
              /\ deletingSector = last.pre.deletingSector

\* C7 witness: a delete rejected while the confirm dialog was open: it is still
\* open, its target retained.
C7_Witness ==
  /\ last.op = "handleConfirmDeleteSettled"
  /\ ~last.outcome.ok
  /\ isDeleteModalOpen
  /\ deletingSector # NULL
  /\ deletingSector = last.pre.deletingSector

\* C8: every handleSubmit call starts exactly one mutation: an update keyed by
\* the edit target's id if an edit target is set, an insert otherwise; the
\* document carries the form's flat fields and a content_modal whose
\* case_study is {title: case_study_title, results: case_study_results}.
C8_SubmitBranch ==
  (last.op = "handleSubmit") =>
    /\ Len(issued) = 1
    /\ LET request == issued[1]
           target  == last.pre.editingSector
           form    == last.input
       IN /\ IF target # NULL
               THEN request.mutation = "update" /\ request.id = target.id
               ELSE request.mutation = "insert"
          /\ request.data.id = form.id
          /\ request.data.title = form.title
          /\ request.data.description = form.description
          /\ request.data.services = form.services
          /\ request.data.icon = form.icon
          /\ request.data.image = form.image
          /\ request.data.content_modal.case_study =
               [title |-> form.case_study_title, results |-> form.case_study_results]

\* C8 witness: a submit in edit mode whose form carries another id than the
\* edit target: the update is keyed by the target.
C8_Witness ==
  /\ last.op = "handleSubmit"
  /\ last.pre.editingSector # NULL
  /\ last.input.id # last.pre.editingSector.id
  /\ issued[1].mutation = "update"
  /\ issued[1].id = last.pre.editingSector.id
  /\ issued[1].data.content_modal.case_study.results = <<"res">>

\* C9: the create/edit modal and the delete-confirm dialog are never open at
\* the same time.
C9_OneModalAtATime == ~(isModalOpen /\ isDeleteModalOpen)

\* C10: isDeleteModalOpen is true iff deletingSector is non-null, and a
\* non-null editingSector implies isModalOpen.
C10_TargetsConsistent ==
  /\ isDeleteModalOpen <=> (deletingSector # NULL)
  /\ (editingSector # NULL) => isModalOpen

\* C10 witness: a submit started on one edit target resolves after the modal
\* was reopened on another target, and closes it.
C10_Witness ==
  /\ last.op = "handleSubmitSettled"
  /\ last.outcome.ok
  /\ last.call.editingSector # NULL
  /\ last.pre.editingSector # NULL
  /\ last.pre.editingSector # last.call.editingSector
  /\ editingSector = NULL
  /\ ~isModalOpen

====
